---- MODULE Spec2Model ----
(***************************************************************************)
(* Model of the research-blog aggregator's orchestration layer: the        *)
(* /api/fetch route handler on top of the post cache (lib/cache.ts), and   *)
(* the pagination contract of the adapters in lib/custom-scrapers.ts.      *)
(*                                                                         *)
(* The repository carries two builds of the /api/fetch handler:            *)
(*   - the filter-keyed handler (src/unnamed/part_011, lines 114-255),     *)
(*     which merges every fetch into the cache with appendCachedPosts;     *)
(*   - the sourceId-keyed handler (src/app/api/fetch/route.ts), which      *)
(*     replaces the cache on a page-1 fetch.                               *)
(* A deployment runs one of them; `deployed` records which.                *)
(*                                                                         *)
(* A post is represented by its url, the only field the cache and the      *)
(* handlers read.  The clock `now` counts ticks of TickHours hours.         *)
(***************************************************************************)
EXTENDS Integers, Sequences, FiniteSets, TLC

\* ---------------------------------------------------------------- bounds
MaxUrl == 2
MaxFetch == 2
MaxNow == 4
MaxContentPages == 2
MaxWalkPage == 60
\* new Date().getFullYear() is FirstBlogYear + YearsOfArchive
YearsOfArchive == 3
\* Granularity of the model's clock: one tick of `now` is TickHours hours.
TickHours == 3

\* the retry counts a caller of fetchUrl configures: 0..MaxConfiguredRetries
MaxConfiguredRetries == 3

\* page numbers written in a detected pattern: 1..MaxTemplateNo
MaxTemplateNo == 2
\* pages asked of constructPageUrl: 1..MaxPageNo
MaxPageNo == 3

\* JSON-LD script blocks on a page: at most MaxBlocks
MaxBlocks == 2
\* post links the HTML heuristics find on a page: at most MaxLinks
MaxLinks == 2

\* a feed is written as at most MaxRuns runs of like items
MaxRuns == 3
\* longest path of a post url, in segments
MaxPathLen == 2
\* most posts in one listing whose ids are compared
MaxListing == 2
\* extractions of one source that are compared
MaxExtractions == 2
\* most lines of a robots.txt
MaxRobotsLines == 2
\* ticks of the clock of the timestamp trace
MaxClock == 3
\* longest limit or offset parameter, in characters
MaxParamLen == 2
\* posts of a source in a cache holding few
MaxFewPosts == 2
\* pages one session walks
MaxSessionPage == 3
\* most items of a sliced dataset
MaxDataset == 4
\* largest page size of a slicing adapter
MaxPageSize == 2
\* ticks of the dataset trace's clock in one TTL
TicksPerTtl == 2
\* ticks of the dataset trace's clock
MaxTtlClock == 5
\* most posts whose details one invocation fetches
MaxBatchItems == 7
\* longest category or researchArea, in characters
MaxFilterLen == 1

\* ------------------------------------------------------------- constants
RssMaxItems == 70
MAX_RETRIES == 3
DefaultRefreshIntervalHours == 6
DefaultMaxPosts == 70
MaxPostsPerPage == 10
HtmlPageLimit == 10
CustomPageLimit == 50
FirstBlogYear == 2006
DefaultLimit == 20
CONCURRENCY_LIMIT == 5
MsPerHour == 60 * 60 * 1000

Urls == 1..MaxUrl
\* The handlers tell page 1 from every later page, and nothing else.
Pages == {1, 2}
Keys == {"k1"}
Requests == {"r1", "r2"}
Handlers == {"filterKeyed", "sourceKeyed"}

\* The refreshIntervalHours query parameter: <<>> when absent, <<h>> when given.
RefreshParams == {<<>>, <<TickHours>>}

\* What fetchPostsFromSource can resolve to: any list of at most MaxFetch posts.
FetchResults == UNION {[1..n -> Urls] : n \in 0..MaxFetch}

VARIABLES
  deployed,         \* which build of the /api/fetch handler serves requests
  cachePosts,       \* memoryCache.posts / .cache/posts/<key>.json : key -> Post[]
  cacheTimestamps,  \* memoryCache.timestamps / fetch-timestamps.json : key -> ms, 0 = none
  now,              \* wall clock, in ticks
  req,              \* the in-flight /api/fetch requests, one record per slot
  lastRefetch,      \* history: per key, when a page-1 refetch last completed without error
  merged,           \* history: per key, the page-1 fetch merged into the empty cache
  walk,             \* a client paging through one adapter: page = 1, 2, 3, ...
  net,              \* one call of fetchUrl: its retry loop and the requests it issued
  lib               \* one call of a library function: its input and its result

hist == <<lastRefetch, merged>>
cacheVars == <<deployed, cachePosts, cacheTimestamps, now, req, lastRefetch, merged>>
vars == <<deployed, cachePosts, cacheTimestamps, now, req, lastRefetch, merged, walk, net, lib>>

\* ------------------------------------------------------------ pure parts

Range(s) == {s[i] : i \in 1..Len(s)}

SelectSeqBy(s, keep) ==
  LET F[i \in 0..Len(s)] ==
        IF i = 0 THEN <<>>
        ELSE IF s[i] \in keep THEN Append(F[i - 1], s[i]) ELSE F[i - 1]
  IN F[Len(s)]

DateNow == now * TickHours * MsPerHour

\* parseInt(searchParams.get('refreshIntervalHours') || '6', 10)
refreshIntervalHours(param) ==
  IF param = <<>> THEN DefaultRefreshIntervalHours ELSE param[1]

\* shouldRefresh with the comparison made inclusive
shouldRefresh_Inclusive(lastFetch, nowMs, intervalHours) ==
  IF lastFetch = 0 THEN TRUE
  ELSE (nowMs - lastFetch) >= intervalHours * 60 * 60 * 1000

\* lib/cache.ts shouldRefresh, given the timestamp it read and Date.now()
shouldRefresh(lastFetch, nowMs, intervalHours) ==
  IF lastFetch = 0 THEN TRUE
  ELSE (nowMs - lastFetch) > intervalHours * 60 * 60 * 1000

\* lib/cache.ts appendCachedPosts: the list it writes, given the list it read.
\* Only posts whose url is not among the existing ones are appended.
uniqueNewPosts(existingPosts, newPosts) ==
  SelectSeqBy(newPosts, Urls \ Range(existingPosts))

appendCachedPosts(existingPosts, newPosts) ==
  IF Len(uniqueNewPosts(existingPosts, newPosts)) > 0
  THEN existingPosts \o uniqueNewPosts(existingPosts, newPosts)
  ELSE existingPosts

\* shouldFetch without its `|| (page > 1)` clause
shouldFetch_Page1Only(page, needsRefresh, isCacheEmpty) ==
  page = 1 /\ (needsRefresh \/ isCacheEmpty)

\* filter-keyed handler: const shouldFetch = (page === 1 && (needsRefresh || isCacheEmpty)) || (page > 1)
shouldFetch(page, needsRefresh, isCacheEmpty) ==
  (page = 1 /\ (needsRefresh \/ isCacheEmpty)) \/ (page > 1)

\* ------------------------------------- adapters (lib/custom-scrapers.ts)

Adapters == {"generic-html", "generic-rss", "huggingface", "google-research",
             "client-side-pagination", "aws-architecture", "cloudflare",
             "microsoft-research"}

\* An upstream that runs out of content: `pages` listing pages of `perPage`
\* posts each, and no posts on any later page.  nav: every page the site
\* serves, the empty ones included, carries a pagination-like anchor.
Upstreams ==
  [pages : 0..MaxContentPages, perPage : {1, MaxPostsPerPage}, nav : BOOLEAN]

PostsOnPage(up, page) == IF page <= up.pages THEN up.perPage ELSE 0

HasNextLink(up, page) == up.nav \/ page < up.pages

\* fetchFromHtml: hasMore = posts.length < maxPosts && (nextPageUrl !== undefined || page < 10)
fetchFromHtml(up, page) ==
  LET posts == PostsOnPage(up, page) IN
  [posts |-> posts,
   hasMore |-> posts < DefaultMaxPosts /\ (HasNextLink(up, page) \/ page < HtmlPageLimit)]

\* fetchPostsFromSource, RSS branch: return { posts, hasMore: false }
fetchFromRss(up, page) ==
  [posts |-> PostsOnPage(up, 1), hasMore |-> FALSE]

\* fetchHuggingFacePosts: page 1 always has more; the community pages compare
\* page * numItemsPerPage with numTotalItems
fetchHuggingFacePosts(up, page) ==
  [posts |-> PostsOnPage(up, page),
   hasMore |-> IF page = 1 THEN TRUE
               ELSE page * up.perPage < up.pages * up.perPage]

\* fetchGoogleResearchBlogs: page N is the archive of year currentYear - (N - 1)
fetchGoogleResearchBlogs(up, page) ==
  LET targetYear == (FirstBlogYear + YearsOfArchive) - (page - 1) IN
  IF targetYear < FirstBlogYear THEN [posts |-> 0, hasMore |-> FALSE]
  ELSE [posts |-> PostsOnPage(up, page), hasMore |-> targetYear > FirstBlogYear]

\* fetchGoogleResearchPubs: hasMore = posts.length > 0
fetchGoogleResearchPubs(up, page) ==
  [posts |-> PostsOnPage(up, page), hasMore |-> PostsOnPage(up, page) > 0]

\* fetchGoogleResearchPosts (category 'all'): either part having more is enough
fetchGoogleResearchPosts(up, page) ==
  [posts |-> fetchGoogleResearchBlogs(up, page).posts
               + fetchGoogleResearchPubs(up, page).posts,
   hasMore |-> fetchGoogleResearchBlogs(up, page).hasMore
                 \/ fetchGoogleResearchPubs(up, page).hasMore]

Min(a, b) == IF a < b THEN a ELSE b
Max(a, b) == IF a > b THEN a ELSE b

\* fetchAppleMLPosts and the other full-fetch adapters: slice the whole dataset
fetchAppleMLPosts(up, page) ==
  LET total == up.pages * up.perPage
      startIndex == (page - 1) * MaxPostsPerPage
      endIndex == startIndex + MaxPostsPerPage
  IN [posts |-> Max(0, Min(endIndex, total) - startIndex),
      hasMore |-> endIndex < total]

\* fetchAWSArchitecturePosts: hasMore = posts.length >= maxPostsPerPage && (hasNextLink || page < 50)
fetchAWSArchitecturePosts(up, page) ==
  LET posts == PostsOnPage(up, page) IN
  [posts |-> posts,
   hasMore |-> posts >= MaxPostsPerPage /\ (HasNextLink(up, page) \/ page < CustomPageLimit)]

\* fetchCloudflarePosts, fetchMetaEngineeringPosts:
\* hasMore = posts.length > 0 && (hasNextLink || page < 50)
fetchCloudflarePosts(up, page) ==
  LET posts == PostsOnPage(up, page) IN
  [posts |-> posts,
   hasMore |-> posts > 0 /\ (HasNextLink(up, page) \/ page < CustomPageLimit)]

\* fetchMicrosoftResearchPosts: hasMore: posts.length > 0
fetchMicrosoftResearchPosts(up, page) ==
  [posts |-> PostsOnPage(up, page), hasMore |-> PostsOnPage(up, page) > 0]

\* fetchPostsFromSource: the adapter chosen for the source
fetchPostsFromSource(adapter, up, page) ==
  CASE adapter = "generic-html" -> fetchFromHtml(up, page)
    [] adapter = "generic-rss" -> fetchFromRss(up, page)
    [] adapter = "huggingface" -> fetchHuggingFacePosts(up, page)
    [] adapter = "google-research" -> fetchGoogleResearchPosts(up, page)
    [] adapter = "client-side-pagination" -> fetchAppleMLPosts(up, page)
    [] adapter = "aws-architecture" -> fetchAWSArchitecturePosts(up, page)
    [] adapter = "cloudflare" -> fetchCloudflarePosts(up, page)
    [] adapter = "microsoft-research" -> fetchMicrosoftResearchPosts(up, page)

\* What the adapter does when the HTTP fetch of the page it was asked for fails
\* and nothing has been collected: its catch block either rethrows or returns
\* an empty result.  (fetchGoogleResearchPosts: both of its parts catch.)
catchFetchError(adapter) ==
  CASE adapter = "generic-html" -> [threw |-> TRUE, posts |-> 0, hasMore |-> FALSE]
    [] adapter = "generic-rss" -> [threw |-> TRUE, posts |-> 0, hasMore |-> FALSE]
    [] adapter = "huggingface" -> [threw |-> FALSE, posts |-> 0, hasMore |-> FALSE]
    [] adapter = "google-research" -> [threw |-> FALSE, posts |-> 0, hasMore |-> FALSE]
    [] adapter = "client-side-pagination" -> [threw |-> TRUE, posts |-> 0, hasMore |-> FALSE]
    [] adapter = "aws-architecture" -> [threw |-> TRUE, posts |-> 0, hasMore |-> FALSE]
    [] adapter = "cloudflare" -> [threw |-> TRUE, posts |-> 0, hasMore |-> FALSE]
    [] adapter = "microsoft-research" -> [threw |-> FALSE, posts |-> 0, hasMore |-> FALSE]

\* failed: the HTTP fetch of the last page asked for failed outright;
\* threw: the adapter call rejected.
NoWalk ==
  [adapter |-> "generic-rss", up |-> [pages |-> 0, perPage |-> 1, nav |-> FALSE],
   page |-> 0, posts |-> 0, hasMore |-> TRUE, failed |-> FALSE, threw |-> FALSE]

\* The client asks for the next page as long as the last result said hasMore.
RequestNextPage ==
  /\ walk.hasMore
  /\ walk.page < MaxWalkPage
  /\ LET result == fetchPostsFromSource(walk.adapter, walk.up, walk.page + 1) IN
       walk' = [walk EXCEPT !.page = walk.page + 1,
                            !.posts = result.posts,
                            !.hasMore = result.hasMore]
  /\ UNCHANGED <<cacheVars, net, lib>>

\* The same request, with the upstream unreachable: fetchUrl rejects.
RequestNextPageFails ==
  /\ walk.hasMore
  /\ walk.page < MaxWalkPage
  /\ LET result == catchFetchError(walk.adapter) IN
       walk' = [walk EXCEPT !.page = walk.page + 1,
                            !.posts = result.posts,
                            !.hasMore = result.hasMore,
                            !.failed = TRUE,
                            !.threw = result.threw]
  /\ UNCHANGED <<cacheVars, net, lib>>

\* ----------------------------------------------- fetchUrl and its retry

\* full, reduced: the requests issued so far with the full header set and with
\* the User-Agent only; rounds: calls of the retried function; tls: a request
\* of this call failed with a TLS/certificate error; waited: the time slept
\* between rounds, in units of RETRY_DELAY.
NoFetch ==
  [pc |-> "idle", urlNamesTls |-> FALSE,
   retries |-> 0, attempt |-> 0, full |-> 0, reduced |-> 0,
   rounds |-> 0, waited |-> 0, tls |-> FALSE, reducedFailed |-> FALSE]

\* fetchUrl(url, retries = MAX_RETRIES)
FetchUrlStart ==
  /\ net.pc = "idle"
  /\ \E retries \in 0..MaxConfiguredRetries, urlNamesTls \in BOOLEAN :
       net' = [NoFetch EXCEPT !.pc = "loop", !.retries = retries,
                              !.urlNamesTls = urlNamesTls]
  /\ UNCHANGED <<cacheVars, walk, lib>>

\* retry loop with one round too many
RetryLoop_OneMore ==
  /\ net.pc = "loop"
  /\ net' = IF net.attempt <= net.retries
            THEN [net EXCEPT !.pc = "fetch", !.rounds = net.rounds + 1]
            ELSE [net EXCEPT !.pc = "threw"]
  /\ UNCHANGED <<cacheVars, walk, lib>>

\* retry: for (let attempt = 0; attempt < maxRetries; attempt++) { try { return await fn() } ... }
\* and `throw lastError` after the loop
RetryLoop ==
  /\ net.pc = "loop"
  /\ net' = IF net.attempt < net.retries
            THEN [net EXCEPT !.pc = "fetch", !.rounds = net.rounds + 1]
            ELSE [net EXCEPT !.pc = "threw"]
  /\ UNCHANGED <<cacheVars, walk, lib>>

\* errorMessage.includes('certificate') || .includes('SSL') || .includes('TLS')
\* || .includes('UNABLE_TO_VERIFY'): a TLS error says so; the message of a
\* non-ok response quotes the url, which may hold one of these words.
isSslIssue(outcome, urlNamesTls) ==
  outcome = "tls" \/ (outcome = "http" /\ urlNamesTls)

\* await fetch(url, { headers: {...} }): the response is ok; or the request
\* fails with a TLS/certificate error or another network error; or the
\* response is not ok ("http") and `Failed to fetch ${url}: ${status}` is thrown
FetchFull ==
  /\ net.pc = "fetch"
  /\ \E outcome \in {"ok", "tls", "network", "http"} :
       net' = [net EXCEPT !.full = net.full + 1,
                          !.tls = net.tls \/ outcome = "tls",
                          !.pc = IF outcome = "ok" THEN "returned"
                                 ELSE IF isSslIssue(outcome, net.urlNamesTls)
                                 THEN "reduced" ELSE "caught"]
  /\ UNCHANGED <<cacheVars, walk, lib>>

\* the catch of the 'certificate' / 'SSL' / 'TLS' messages:
\* await fetch(url, { headers: { 'User-Agent': USER_AGENT } })
FetchReduced ==
  /\ net.pc = "reduced"
  /\ \E ok \in BOOLEAN :
       net' = [net EXCEPT !.reduced = net.reduced + 1,
                          !.reducedFailed = net.reducedFailed \/ ~ok,
                          !.pc = IF ok THEN "returned" ELSE "caught"]
  /\ UNCHANGED <<cacheVars, walk, lib>>

\* retry's catch: lastError = error; if (attempt < maxRetries - 1) wait
\* delay * (attempt + 1); then the loop's attempt++
RetryCatch ==
  /\ net.pc = "caught"
  /\ net' = IF net.attempt < net.retries - 1
            THEN [net EXCEPT !.pc = "sleep"]
            ELSE [net EXCEPT !.attempt = net.attempt + 1, !.pc = "loop"]
  /\ UNCHANGED <<cacheVars, walk, lib>>

\* await new Promise(resolve => setTimeout(resolve, delay * (attempt + 1)))
RetrySleep ==
  /\ net.pc = "sleep"
  /\ net' = [net EXCEPT !.waited = net.waited + (net.attempt + 1),
                        !.attempt = net.attempt + 1, !.pc = "loop"]
  /\ UNCHANGED <<cacheVars, walk, lib>>

\* --------------------------------- fetchPostsFromSource: strategy choice

\* The source ids fetchPostsFromSource tests for, and one without an adapter.
CustomSourceIds ==
  {"anthropic", "apple-ml", "amazon-science", "deepmind", "aws-architecture",
   "cloudflare", "meta-engineering", "google-research", "huggingface",
   "linkedin-engineering", "microsoft-research", "netflix-research",
   "nvidia-developer", "openai", "meta-research", "spotify-engineering",
   "stripe-engineering", "uber-engineering"}

\* if (source.id === 'amazon-science' && source.rss), likewise 'deepmind'
RssBackedSourceIds == {"amazon-science", "deepmind"}

\* A source record: rss and blogListUrl tell whether the field is declared.
Sources ==
  [id : CustomSourceIds \cup {"test-source"}, rss : BOOLEAN,
   allowScrape : BOOLEAN, blogListUrl : BOOLEAN]

\* the branch that tests source.rss only after source.blogListUrl
selectStrategy_HtmlFirst(source) ==
  IF source.id \in CustomSourceIds \ RssBackedSourceIds THEN "custom"
  ELSE IF source.id \in RssBackedSourceIds /\ source.rss THEN "custom"
  ELSE IF source.allowScrape /\ source.blogListUrl THEN "html"
  ELSE IF source.rss THEN "rss"
  ELSE "none"

\* the HTML fallback taken without its test of allowScrape and blogListUrl
selectStrategy_AlwaysHtml(source) ==
  IF source.id \in CustomSourceIds \ RssBackedSourceIds THEN "custom"
  ELSE IF source.id \in RssBackedSourceIds /\ source.rss THEN "custom"
  ELSE IF source.rss THEN "rss"
  ELSE "html"

\* fetchPostsFromSource: the chain of `if (...) return await ...` and the
\* final `throw new Error('No RSS feed or scrapeable URL ...')`
selectStrategy(source) ==
  IF source.id \in CustomSourceIds \ RssBackedSourceIds THEN "custom"
  ELSE IF source.id \in RssBackedSourceIds /\ source.rss THEN "custom"
  ELSE IF source.rss THEN "rss"
  ELSE IF source.allowScrape /\ source.blogListUrl THEN "html"
  ELSE "none"

\* fetchPostsFromSource(source): the selected strategy is awaited and its
\* result returned, or its error rethrown by the catch; with no strategy the
\* no-strategy error is thrown.  used: the strategies that were run.
FetchPostsFromSourceRuns ==
  /\ lib.fn = "fetchPostsFromSource"
  /\ lib.pc = "called"
  /\ LET strategy == selectStrategy(lib.source) IN
       IF strategy = "none"
       THEN lib' = [lib EXCEPT !.pc = "done", !.outcome = "rejected",
                               !.error = "no-strategy"]
       ELSE \E ok \in BOOLEAN :
              lib' = [lib EXCEPT !.pc = "done", !.used = {strategy},
                                 !.outcome = IF ok THEN "result" ELSE "rejected",
                                 !.error = IF ok THEN "none" ELSE "strategy"]
  /\ UNCHANGED <<cacheVars, walk, net>>

\* ------------------------------------------------------ constructPageUrl

\* A url, as far as pagination reads it: the number written in each of the
\* four conventions (0: the convention does not occur), whether it is built
\* on the detected pattern or on the listing url, the query string of the
\* listing url ("none", "other": without page=, "page": with page=), and
\* whether it ends in the '&' of the default pattern.
Conventions == 0..MaxTemplateNo

PatternUrls ==
  [from : {"pattern"}, search : {"none"}, pageParam : Conventions,
   pParam : Conventions, pageSeg : Conventions, pSeg : Conventions,
   amp : {FALSE}]

ListingUrls ==
  {[from |-> "listing", search |-> q, pageParam |-> IF q = "page" THEN 1 ELSE 0,
    pParam |-> 0, pageSeg |-> 0, pSeg |-> 0, amp |-> FALSE] :
     q \in {"none", "other", "page"}}

\* String.prototype.replace(/...\d+/, ...): the first match, if any
replaceNumber(n, page) == IF n = 0 THEN 0 ELSE page

\* constructPageUrl: the four replacements, one after the other
replaceAll(url, page) ==
  [url EXCEPT !.pageParam = replaceNumber(@, page),
              !.pParam = replaceNumber(@, page),
              !.pageSeg = replaceNumber(@, page),
              !.pSeg = replaceNumber(@, page)]

\* constructPageUrl: `${origin}${basePath}?page=${page}&` and its variants
defaultPageUrl(blogListUrl, page) ==
  [blogListUrl EXCEPT !.pageParam = page, !.amp = TRUE]

\* constructPageUrl(blogListUrl, page, detectedPatternUrl); the pattern is
\* <<>> when null, <<url>> otherwise
constructPageUrl(blogListUrl, page, detectedPatternUrl) ==
  IF page = 1 THEN blogListUrl
  ELSE IF detectedPatternUrl # <<>>
            /\ replaceAll(detectedPatternUrl[1], page) # detectedPatternUrl[1]
       THEN replaceAll(detectedPatternUrl[1], page)
       ELSE defaultPageUrl(blogListUrl, page)

ConstructPageUrlRuns ==
  /\ lib.fn = "constructPageUrl"
  /\ lib.pc = "called"
  /\ lib' = [lib EXCEPT !.pc = "done",
                        !.result = constructPageUrl(lib.blogListUrl, lib.page,
                                                    lib.detectedPatternUrl)]
  /\ UNCHANGED <<cacheVars, walk, net>>

\* --------------------------------- fetchFromHtml: extraction of one page

\* A script[type="application/ld+json"] block, by what its text holds:
\*   "invalid-json"  text JSON.parse rejects
\*   "null"          the JSON text null
\*   "posting"       a BlogPosting/Article with url and headline
\*   "incomplete"    a BlogPosting/Article lacking its url or its title
\*   "other"         an object of another @type
BlockKinds == {"invalid-json", "null", "posting", "incomplete", "other"}

HtmlPages ==
  [blocks : UNION {[1..n -> BlockKinds] : n \in 0..MaxBlocks},
   links : 0..MaxLinks]

\* The indices of s, in order, whose element is in keep
IndicesOf(s, keep) ==
  LET F[i \in 0..Len(s)] ==
        IF i = 0 THEN <<>>
        ELSE IF s[i] \in keep THEN Append(F[i - 1], i) ELSE F[i - 1]
  IN F[Len(s)]

\* extractStructuredData: the blocks whose text parses, by index
extractStructuredData(blocks) ==
  IndicesOf(blocks, BlockKinds \ {"invalid-json"})

\* extractPostsFromStructuredData: data['@type'] on null is a TypeError, which
\* nothing in the function catches; otherwise one post per complete posting
extractPostsFromStructuredData(blocks, structuredData) ==
  IF \E i \in Range(structuredData) : blocks[i] = "null"
  THEN [threw |-> TRUE, posts |-> <<>>]
  ELSE [threw |-> FALSE,
        posts |-> [k \in 1..Len(SelectSeqBy(structuredData,
                                             {i \in 1..Len(blocks) : blocks[i] = "posting"}))
                     |-> <<"json-ld",
                           SelectSeqBy(structuredData,
                                       {i \in 1..Len(blocks) : blocks[i] = "posting"})[k]>>]]

\* fetchFromHtml, Strategy 2: one post per link whose page could be fetched,
\* from the first maxPosts links
extractFromLinks(links, fetched) ==
  [k \in 1..Len(IndicesOf([j \in 1..Min(links, DefaultMaxPosts) |-> j], fetched))
     |-> <<"html", IndicesOf([j \in 1..Min(links, DefaultMaxPosts) |-> j], fetched)[k]>>]

\* Strategy 2 run whatever Strategy 1 found, and its posts added
extractPagePosts_Combined(pg, fetched) ==
  LET structured ==
        IF Len(extractStructuredData(pg.blocks)) > 0
        THEN extractPostsFromStructuredData(pg.blocks, extractStructuredData(pg.blocks))
        ELSE [threw |-> FALSE, posts |-> <<>>]
  IN IF structured.threw THEN structured
     ELSE [threw |-> FALSE,
           posts |-> structured.posts \o extractFromLinks(pg.links, fetched)]

\* fetchFromHtml: Strategy 1 (structured data), then Strategy 2 (HTML
\* parsing) if (posts.length === 0)
extractPagePosts(pg, fetched) ==
  LET structured ==
        IF Len(extractStructuredData(pg.blocks)) > 0
        THEN extractPostsFromStructuredData(pg.blocks, extractStructuredData(pg.blocks))
        ELSE [threw |-> FALSE, posts |-> <<>>]
  IN IF structured.threw THEN structured
     ELSE IF Len(structured.posts) = 0
     THEN [threw |-> FALSE, posts |-> extractFromLinks(pg.links, fetched)]
     ELSE structured

\* fetchFromHtml on a fetched page; fetched: the links whose post page loads
FetchFromHtmlExtracts ==
  /\ lib.fn = "fetchFromHtml"
  /\ lib.pc = "called"
  /\ \E fetched \in SUBSET (1..lib.page.links) :
       LET result == extractPagePosts(lib.page, fetched) IN
       lib' = [lib EXCEPT !.pc = "done", !.threw = result.threw,
                          !.posts = result.posts]
  /\ UNCHANGED <<cacheVars, walk, net>>

\* ------------------------------------------------ fetchFromRss: the feed

\* A feed item, by what parseRssWithCheerio finds in it.
ItemKinds == {"complete", "no-link", "no-title"}

\* A feed, written as runs of like items: one item, or as many as the cap
\* holds, or one fewer.
Feeds ==
  UNION {[1..n -> [kind : ItemKinds, count : {1, RssMaxItems - 1, RssMaxItems}]] :
           n \in 0..MaxRuns}

\* feed.items, one kind per item
feedItems(feed) ==
  LET F[i \in 0..Len(feed)] ==
        IF i = 0 THEN <<>>
        ELSE F[i - 1] \o [j \in 1..feed[i].count |-> feed[i].kind]
  IN F[Len(feed)]

\* processRssFeed without its slice(0, 70)
processRssFeed_NoCap(items) ==
  IndicesOf(items, {"complete"})

\* processRssFeed: items = feed.items.slice(0, 70); then
\* `if (!item.link || !item.title) continue` and one post per item kept.
\* A post is named by the position of its item in the feed.
processRssFeed(items) ==
  IndicesOf(SubSeq(items, 1, Min(Len(items), RssMaxItems)), {"complete"})

\* fetchFromRss: return processRssFeed(parseRssWithCheerio(rssContent), sourceId)
FetchFromRssProcesses ==
  /\ lib.fn = "fetchFromRss"
  /\ lib.pc = "called"
  /\ lib' = [lib EXCEPT !.pc = "done", !.posts = processRssFeed(feedItems(lib.feed))]
  /\ UNCHANGED <<cacheVars, walk, net>>

\* ------------------------------------------------------- the id of a post
\* A url is represented by the segments of its path; a segment is one of
\* two letters.  An id is the string the code builds, kept as its pieces.
PathSegments == {"a", "b"}

PostUrls == UNION {[1..n -> PathSegments] : n \in 0..MaxPathLen}

\* a listing: the distinct urls one page or feed shows, in its order
Listings ==
  {l \in UNION {[1..n -> PostUrls] : n \in 0..MaxListing} :
     \A i, j \in 1..Len(l) : l[i] = l[j] => i = j}

\* the extractors that payload ids are built in
IdExtractors == {"structured-data", "rss", "deepmind-science"}

\* urlPath.split('/').filter(Boolean).join('-') || 'post'
urlSlug(url) ==
  LET J[i \in 0..Len(url)] ==
        IF i = 0 THEN <<>>
        ELSE IF i = 1 THEN <<url[1]>>
        ELSE J[i - 1] \o <<"-", url[i]>>
  IN IF Len(url) = 0 THEN <<"p", "o", "s", "t">> ELSE J[Len(url)]

\* const postId = `${sourceId}-${urlSlug}`
postId(sourceId, url) == <<sourceId, "-">> \o urlSlug(url)

\* fetchDeepMindScience: id: `deepmind-science-${posts.length}`, the number
\* of posts pushed before this one
deepMindScienceId(listing, i) == <<"deepmind-science-", i - 1>>

\* the id the extractor gives to the i-th post of a listing
extractedId(extractor, sourceId, listing, i) ==
  IF extractor = "deepmind-science"
  THEN deepMindScienceId(listing, i)
  ELSE postId(sourceId, listing[i])

\* One extraction of a listing, at any time and for any page: every post
\* gets its id; `ids` keeps the (url, id) pairs of all extractions so far.
ExtractListing ==
  /\ lib.fn = "extractIds"
  /\ lib.runs < MaxExtractions
  /\ \E listing \in Listings :
       lib' = [lib EXCEPT
                 !.runs = @ + 1,
                 !.ids = @ \cup {<<listing[i],
                                   extractedId(lib.extractor, "src", listing, i)>> :
                                   i \in 1..Len(listing)}]
  /\ UNCHANGED <<cacheVars, walk, net>>

\* ------------------------------------------- fetchFromHtml: robots.txt
\* A line of robots.txt, by the text the check looks for.
RobotsLines ==
  {"User-agent: *", "Disallow: /", "Disallow: /tmp", "Disallow:", "Allow: /pub"}

\* what the request for robots.txt comes to: its text, or no text (404,
\* network error: fetchUrl throws)
RobotsOutcomes ==
  [got : {TRUE}, text : UNION {[1..n -> RobotsLines] : n \in 0..MaxRobotsLines}]
    \cup [got : {FALSE}, text : {<<>>}]

\* line.includes(needle), for the two needles of checkRobotsTxt
lineIncludes(line, needle) ==
  CASE needle = "Disallow: /" -> line \in {"Disallow: /", "Disallow: /tmp"}
    [] needle = "Allow:"      -> line = "Allow: /pub"

\* robotsTxt.includes(needle)
includes(text, needle) == \E i \in 1..Len(text) : lineIncludes(text[i], needle)

\* checkRobotsTxt with its catch returning false
checkRobotsTxt_FailClosed(outcome) ==
  IF outcome.got
  THEN ~(includes(outcome.text, "Disallow: /") /\ ~includes(outcome.text, "Allow:"))
  ELSE FALSE

\* checkRobotsTxt: false if the text includes 'Disallow: /' and no 'Allow:';
\* true otherwise, and true from the catch if fetchUrl threw
checkRobotsTxt(outcome) ==
  IF outcome.got
  THEN ~(includes(outcome.text, "Disallow: /") /\ ~includes(outcome.text, "Allow:"))
  ELSE TRUE

\* fetchFromHtml up to its throw: robots.txt is requested and checked
FetchFromHtmlChecksRobots ==
  /\ lib.fn = "fetchFromHtml-robots"
  /\ lib.pc = "called"
  /\ lib' = [lib EXCEPT
               !.requested = Append(@, "robots.txt"),
               !.pc = IF checkRobotsTxt(lib.robots) THEN "allowed" ELSE "done",
               !.error = IF checkRobotsTxt(lib.robots) THEN "none" ELSE "robots"]
  /\ UNCHANGED <<cacheVars, walk, net>>

\* fetchFromHtml after the check: the listing url is requested; the request
\* gives the page or throws, and the catch rethrows
FetchFromHtmlRequestsListing ==
  /\ lib.fn = "fetchFromHtml-robots"
  /\ lib.pc = "allowed"
  /\ \E ok \in BOOLEAN :
       lib' = [lib EXCEPT
                 !.requested = Append(@, "listing"),
                 !.pc = "done",
                 !.error = IF ok THEN "none" ELSE "fetch"]
  /\ UNCHANGED <<cacheVars, walk, net>>

\* ----------------------------------- lib/cache.ts: last-fetch timestamps
\* Two sources, each with one request that stamps its own last-fetch time.
CacheSources == {"s1", "s2"}

\* the two versions of lib/cache.ts: the Map in memory, and the json files
CacheStores == {"memory", "filesystem"}

\* a caller of setLastFetchTime that has not started
NoStamp == [pc |-> "idle", ts |-> 0, timestamps |-> <<>>]

\* the clock of the timestamp trace advances
StampClockTick ==
  /\ lib.fn = "setLastFetchTime"
  /\ lib.clock < MaxClock
  /\ lib' = [lib EXCEPT !.clock = @ + 1]
  /\ UNCHANGED <<cacheVars, walk, net>>

\* in-memory setLastFetchTime: memoryCache.timestamps.set(sourceId, timestamp)
SetLastFetchTimeInMemory(s) ==
  /\ lib.fn = "setLastFetchTime"
  /\ lib.store = "memory"
  /\ lib.call[s].pc = "idle"
  /\ lib' = [lib EXCEPT !.file[s] = lib.clock,
                        !.call[s] = [pc |-> "done", ts |-> lib.clock, timestamps |-> <<>>]]
  /\ UNCHANGED <<cacheVars, walk, net>>

\* filesystem setLastFetchTime, first await:
\* timestamps = await readJsonFile(FETCH_TIMESTAMPS_FILE, {})
SetLastFetchTimeReads(s) ==
  /\ lib.fn = "setLastFetchTime"
  /\ lib.store = "filesystem"
  /\ lib.call[s].pc = "idle"
  /\ lib' = [lib EXCEPT !.call[s] = [pc |-> "read", ts |-> lib.clock, timestamps |-> lib.file]]
  /\ UNCHANGED <<cacheVars, walk, net>>

\* filesystem setLastFetchTime, second await:
\* timestamps[sourceId] = timestamp; await writeJsonFile(FETCH_TIMESTAMPS_FILE, timestamps)
SetLastFetchTimeWrites(s) ==
  /\ lib.fn = "setLastFetchTime"
  /\ lib.call[s].pc = "read"
  /\ lib' = [lib EXCEPT
               !.file = [lib.call[s].timestamps EXCEPT ![s] = lib.call[s].ts],
               !.call[s] = [pc |-> "done", ts |-> lib.call[s].ts, timestamps |-> <<>>]]
  /\ UNCHANGED <<cacheVars, walk, net>>

\* ----------------------------------------------------- GET /api/posts
\* A query parameter is the string of its characters; the empty string
\* stands for an absent parameter too (`searchParams.get(..) || '20'`).
Digits == <<"0", "1", "2">>
ParamChars == Range(Digits) \cup {"-", "x"}
ParamStrings == UNION {[1..n -> ParamChars] : n \in 0..MaxParamLen}

digitValue(c) == CHOOSE d \in 0..(Len(Digits) - 1) : Digits[d + 1] = c

\* parseInt(s, 10): an optional sign, then the digits up to the first other
\* character; NaN if there is no digit
parseInt(s) ==
  LET neg == Len(s) > 0 /\ s[1] = "-"
      body == IF neg THEN Tail(s) ELSE s
      n == CHOOSE k \in 0..Len(body) :
             /\ \A i \in 1..k : body[i] \in Range(Digits)
             /\ k < Len(body) => body[k + 1] \notin Range(Digits)
      V[i \in 0..n] == IF i = 0 THEN 0 ELSE 10 * V[i - 1] + digitValue(body[i])
  IN IF n = 0 THEN [nan |-> TRUE, n |-> 0]
     ELSE [nan |-> FALSE, n |-> IF neg THEN 0 - V[n] ELSE V[n]]

\* parseInt(searchParams.get(name) || dflt, 10) || dflt
intParam(s, dflt) ==
  LET v == IF s = <<>> THEN [nan |-> FALSE, n |-> dflt] ELSE parseInt(s)
  IN IF v.nan \/ v.n = 0 THEN dflt ELSE v.n

\* the cache of /api/posts: so many posts of each source; a post is its
\* source and its rank by date within the source
PostCounts == {0, MaxFewPosts, DefaultLimit + 1}

getAllCachedPosts(counts) ==
  [i \in 1..counts["s1"] |-> <<"s1", i>>] \o [i \in 1..counts["s2"] |-> <<"s2", i>>]

\* posts.filter(p => p.sourceId === params.sourceId) when sourceId is given
filterBySource(posts, sourceId) ==
  IF sourceId = "" THEN posts ELSE SelectSeq(posts, LAMBDA p : p[1] = sourceId)

\* posts.sort: newest first; the rank of a post grows with its date, and
\* the posts of s2 are newer than those of s1
sortNewestFirst(posts) == [i \in 1..Len(posts) |-> posts[Len(posts) + 1 - i]]

\* Array.prototype.slice with the end taken inclusive
slice_Inclusive(posts, start, end) ==
  LET len == Len(posts)
      from == IF start < 0 THEN Max(len + start, 0) ELSE Min(start, len)
      to == IF end < 0 THEN Max(len + end, 0) ELSE Min(end, len)
  IN SubSeq(posts, from + 1, Min(to + 1, len))

\* Array.prototype.slice(start, end): a negative index counts from the end
slice(posts, start, end) ==
  LET len == Len(posts)
      from == IF start < 0 THEN Max(len + start, 0) ELSE Min(start, len)
      to == IF end < 0 THEN Max(len + end, 0) ELSE Min(end, len)
  IN SubSeq(posts, from + 1, to)

\* GET /api/posts: parse limit and offset, filter, sort, slice, respond
GetPosts ==
  /\ lib.fn = "GET /api/posts"
  /\ lib.pc = "called"
  /\ LET limit == intParam(lib.limitParam, DefaultLimit)
         offset == intParam(lib.offsetParam, 0)
         posts == sortNewestFirst(filterBySource(getAllCachedPosts(lib.counts), lib.sourceId))
         total == Len(posts)
     IN lib' = [lib EXCEPT
                  !.pc = "done",
                  !.posts = slice(posts, offset, offset + limit),
                  !.pagination = [total |-> total, limit |-> limit, offset |-> offset,
                                  hasMore |-> offset + limit < total]]
  /\ UNCHANGED <<cacheVars, walk, net>>

\* ------------------------------------ a generic-HTML pagination session
\* The links to page 2 that detectPaginationPattern accepts: the number 2
\* in one of the conventions.
Page2Links ==
  {u \in PatternUrls : u.pageParam = 2 \/ u.pParam = 2 \/ u.pageSeg = 2 \/ u.pSeg = 2}

\* a pattern as it travels: <<>> for null, undefined or an absent parameter
Patterns == {<<>>} \cup {<<u>> : u \in Page2Links}

\* who asks for the pages: loadPosts of app/page.tsx, or a caller that
\* sends back the detectedPattern of the previous response
SessionClients == {"loadPosts", "echo"}

\* the listing url of the source
SessionListingUrl == CHOOSE u \in ListingUrls : u.search = "none"

\* the detectedPattern parameter of the request for the next page
requestPattern(client, held) == IF client = "loadPosts" THEN <<>> ELSE held

\* fetchFromHtml, the pattern it returns: detectedPattern || null, and on
\* page 1 the result of detectPaginationPattern on the html
returnedPattern(page, detectedPattern, htmlLink) ==
  IF page = 1 THEN htmlLink ELSE detectedPattern

\* One request of the session: /api/fetch for the next page.  The handler
\* fetches (always for page > 1), serves page 1 from the cache, or falls
\* back to the cache when the fetch throws; only a fetch fills
\* detectedPattern of the response.
SessionRequestsNextPage ==
  /\ lib.fn = "session"
  /\ lib.page < MaxSessionPage
  /\ LET page == lib.page + 1
         prevPattern == requestPattern(lib.client, lib.held)
     IN \E outcome \in {"fetched", "cached", "failed"}, htmlLink \in Patterns :
          /\ outcome = "cached" => page = 1 /\ htmlLink = <<>>
          /\ outcome = "failed" => htmlLink = <<>>
          /\ page > 1 => htmlLink = <<>>
          /\ lib' = [lib EXCEPT
                       !.page = page,
                       !.outcome = outcome,
                       !.given = IF outcome = "cached" THEN <<>> ELSE prevPattern,
                       !.url = IF outcome = "cached" THEN <<>>
                               ELSE <<constructPageUrl(SessionListingUrl, page, prevPattern)>>,
                       !.detected = IF page = 1 /\ outcome = "fetched"
                                    THEN htmlLink ELSE @,
                       !.held = IF outcome = "fetched"
                                THEN returnedPattern(page, prevPattern, htmlLink)
                                ELSE <<>>]
  /\ UNCHANGED <<cacheVars, walk, net>>

\* ------------------------------------------ full-fetch-and-slice adapters
\* The adapters that hold the whole dataset and slice it per page.
SliceAdapters == {"apple-ml", "netflix-research", "linkedin-engineering"}

\* A dataset: its items in order.  An item is named by its position, and
\* carries whether its detail page can be fetched and has a title, which
\* only the LinkedIn adapter asks for.
Datasets == UNION {[1..n -> {"detail", "no-detail"}] : n \in 0..MaxDataset}

\* const hasMore = endIndex <= allPosts.length
hasMoreAfter_Inclusive(endIndex, total) == endIndex <= total

\* const hasMore = endIndex < allPosts.length
hasMoreAfter(endIndex, total) == endIndex < total

\* fetchLinkedInEngineeringPosts: fetchPostDetails gives the post or null,
\* `if (post) posts.push(post)`; the other adapters return the slice
pagePosts(adapter, D, positions) ==
  IF adapter = "linkedin-engineering"
  THEN SelectSeq(positions, LAMBDA i : D[i] = "detail")
  ELSE positions

\* One page request to an adapter that holds D in memory:
\* startIndex = (page - 1) * maxPostsPerPage; endIndex = startIndex +
\* maxPostsPerPage; slice(startIndex, endIndex); hasMore.
\* The caller asks for the next page while hasMore.
SliceAdapterReturnsPage ==
  /\ lib.fn = "slice"
  /\ lib.page = 0 \/ lib.hasMore
  /\ LET page == lib.page + 1
         startIndex == (page - 1) * lib.maxPostsPerPage
         endIndex == startIndex + lib.maxPostsPerPage
         positions == slice([i \in 1..Len(lib.D) |-> i], startIndex, endIndex)
         posts == pagePosts(lib.adapter, lib.D, positions)
     IN lib' = [lib EXCEPT
                  !.page = page,
                  !.posts = posts,
                  !.hasMore = IF lib.adapter = "linkedin-engineering" /\ positions = <<>>
                              THEN FALSE
                              ELSE hasMoreAfter(endIndex, Len(lib.D)),
                  !.walked = @ \o posts]
  /\ UNCHANGED <<cacheVars, walk, net>>

\* ------------------------------- the in-memory copy of a sliced dataset
\* APPLE_ML_CACHE_TTL, SITEMAP_CACHE_TTL: 1 hour
CACHE_TTL == 60 * 60 * 1000

\* Date.now() of the dataset trace: its clock ticks TicksPerTtl times an hour
TtlNowMs(clock) == clock * (CACHE_TTL \div TicksPerTtl)

\* the adapters traced: appleMLPostsCache and sitemapCache
TtlAdapters == {"apple-ml", "linkedin-engineering"}

\* two calls of the adapter, which may overlap at the await of the fetch
TtlCalls == {"c1", "c2"}

\* a call that has not started
NoTtlCall == [pc |-> "idle", now |-> 0, requests |-> {}, served |-> "none"]

\* the check with <= for <
isFresh_Inclusive(copy, nowMs) ==
  copy # <<>> /\ nowMs - copy[1].fetchedAt <= CACHE_TTL

\* appleMLPostsCache && (Date.now() - appleMLPostsCache.fetchedAt) < APPLE_ML_CACHE_TTL
isFresh(copy, nowMs) ==
  copy # <<>> /\ nowMs - copy[1].fetchedAt < CACHE_TTL

\* the requests for post details that a page costs: the LinkedIn adapter
\* fetches the detail page of every url of the page, the others none
detailRequests(adapter, pageHasPosts) ==
  IF adapter = "linkedin-engineering" /\ pageHasPosts THEN {"detail"} ELSE {}

TtlClockTick ==
  /\ lib.fn = "dataset"
  /\ lib.clock < MaxTtlClock
  /\ lib' = [lib EXCEPT !.clock = @ + 1]
  /\ UNCHANGED <<cacheVars, walk, net>>

\* the adapter is called for a page: a fresh copy is sliced at once,
\* otherwise the dataset is requested and the call waits for it
SliceAdapterCalled(c) ==
  /\ lib.fn = "dataset"
  /\ lib.call[c].pc \in {"idle", "done"}
  /\ \E pageHasPosts \in BOOLEAN :
       IF isFresh(lib.copy, TtlNowMs(lib.clock))
       THEN lib' = [lib EXCEPT
                      !.call[c] = [pc |-> "done", now |-> TtlNowMs(lib.clock),
                                   requests |-> detailRequests(lib.adapter, pageHasPosts),
                                   served |-> "memory"]]
       ELSE /\ ~pageHasPosts
            /\ lib' = [lib EXCEPT
                         !.call[c] = [pc |-> "fetching", now |-> TtlNowMs(lib.clock),
                                      requests |-> {"dataset"}, served |-> "none"]]
  /\ UNCHANGED <<cacheVars, walk, net>>

\* the dataset arrives: it becomes the copy, stamped Date.now() (Apple) or
\* the `now` taken when the call began (LinkedIn), and the page is sliced
DatasetFetched(c) ==
  /\ lib.fn = "dataset"
  /\ lib.call[c].pc = "fetching"
  /\ \E pageHasPosts \in BOOLEAN :
       lib' = [lib EXCEPT
                 !.copy = <<[data |-> lib.clock,
                             fetchedAt |-> IF lib.adapter = "apple-ml"
                                           THEN TtlNowMs(lib.clock)
                                           ELSE lib.call[c].now]>>,
                 !.call[c].pc = "done",
                 !.call[c].requests = @ \cup detailRequests(lib.adapter, pageHasPosts),
                 !.call[c].served = "upstream"]
  /\ UNCHANGED <<cacheVars, walk, net>>

\* the request for the dataset throws: the call ends in the catch before
\* the copy is assigned
DatasetFetchFails(c) ==
  /\ lib.fn = "dataset"
  /\ lib.call[c].pc = "fetching"
  /\ lib' = [lib EXCEPT !.call[c].pc = "done", !.call[c].served = "failed"]
  /\ UNCHANGED <<cacheVars, walk, net>>

\* ------------------------------------- post-detail fetches, in batches
\* The adapters whose batch loop is traced.
BatchAdapters == {"linkedin-engineering", "deepmind-publications", "nvidia-developer"}

\* the items of the batch that begins at index i (counted from 0) of n
batchAt(i, n) == (i + 1)..Min(i + CONCURRENCY_LIMIT, n)

\* Promise.race in the place of Promise.all: settled with the first item
promiseAll_Race(batch, inflight, rejected) ==
  IF rejected THEN "rejected"
  ELSE IF batch \ inflight # {} THEN "fulfilled"
  ELSE "pending"

\* await Promise.all(batch.map(..)): rejected as soon as one of the
\* promises rejects, fulfilled once all of them are fulfilled
promiseAll(batch, inflight, rejected) ==
  IF rejected THEN "rejected"
  ELSE IF batch \cap inflight = {} THEN "fulfilled"
  ELSE "pending"

\* can the function mapped over the batch throw?  LinkedIn's and
\* DeepMind's catch everything; NVIDIA's builds the post outside its try,
\* and new Date(item.pubDate).toISOString() throws on an invalid date
canReject(adapter) == adapter = "nvidia-developer"

\* for (let i = 0; i < n; i += 5): batch.map starts the fetch of every
\* item of the batch
BatchStarts ==
  /\ lib.fn = "batches"
  /\ lib.pc = "loop"
  /\ lib.i < lib.n
  /\ lib' = [lib EXCEPT !.pc = "awaiting",
                        !.inflight = @ \cup batchAt(lib.i, lib.n)]
  /\ UNCHANGED <<cacheVars, walk, net>>

\* the fetch of item j settles, and the function mapped over it returns
\* or throws
DetailFetchSettles(j) ==
  /\ lib.fn = "batches"
  /\ j \in lib.inflight
  /\ \E throws \in BOOLEAN :
       /\ throws => canReject(lib.adapter)
       /\ lib' = [lib EXCEPT !.inflight = @ \ {j},
                             !.rejected = @ \/ (throws /\ j \in batchAt(lib.i, lib.n))]
  /\ UNCHANGED <<cacheVars, walk, net>>

\* the await of Promise.all resumes: the loop goes on to the next batch,
\* or the rejection leaves the loop for the adapter's catch
PromiseAllResumes ==
  /\ lib.fn = "batches"
  /\ lib.pc = "awaiting"
  /\ promiseAll(batchAt(lib.i, lib.n), lib.inflight, lib.rejected) # "pending"
  /\ lib' = IF promiseAll(batchAt(lib.i, lib.n), lib.inflight, lib.rejected) = "rejected"
            THEN [lib EXCEPT !.pc = "returned"]
            ELSE [lib EXCEPT !.pc = "loop", !.i = @ + CONCURRENCY_LIMIT]
  /\ UNCHANGED <<cacheVars, walk, net>>

\* the loop is over: the adapter returns its posts
BatchLoopEnds ==
  /\ lib.fn = "batches"
  /\ lib.pc = "loop"
  /\ lib.i >= lib.n
  /\ lib' = [lib EXCEPT !.pc = "returned"]
  /\ UNCHANGED <<cacheVars, walk, net>>

\* -------------------------------------------- the cache key of /api/fetch
\* Strings are sequences of characters.  The empty string stands for an
\* absent parameter (`searchParams.get(..) || undefined`).
KeyChars == {"a", "_", "."}

FilterValues ==
  UNION {[1..n -> KeyChars] : n \in 0..MaxFilterLen} \cup {<<"a", "l", "l">>}

KeySourceIds == {<<"s">>, <<"t">>}

\* a request's filter combination
Combinations ==
  [sourceId : KeySourceIds, category : FilterValues, researchArea : FilterValues]

\* `${sourceId}${category && category !== 'all' ? `_${category}` : ''}
\*  ${researchArea ? `_${researchArea}` : ''}`
cacheKey(c) ==
  c.sourceId
    \o (IF c.category # <<>> /\ c.category # <<"a", "l", "l">>
        THEN <<"_">> \o c.category ELSE <<>>)
    \o (IF c.researchArea # <<>> THEN <<"_">> \o c.researchArea ELSE <<>>)

\* sourceId.replace(/[^a-zA-Z0-9_-]/g, '_')
safeId(key) == [i \in 1..Len(key) |-> IF key[i] = "." THEN "_" ELSE key[i]]

\* path.join(POSTS_DIR, `${safeId}.json`)
cacheFile(key) == safeId(key) \o <<".", "j", "s", "o", "n">>

\* two requests build their cache keys, and the filesystem cache the file
\* names of their records
CacheKeysBuilt ==
  /\ lib.fn = "cacheKey"
  /\ lib.pc = "called"
  /\ lib' = [lib EXCEPT !.pc = "done",
                        !.keys = <<cacheKey(lib.a), cacheKey(lib.b)>>,
                        !.files = <<cacheFile(cacheKey(lib.a)), cacheFile(cacheKey(lib.b))>>]
  /\ UNCHANGED <<cacheVars, walk, net>>

\* no library call traced
NoCall == [fn |-> "none"]

\* ------------------------------------------------------- request records

\* at: time of the last error-free page-1 refetch; atSome: of the last one that
\* returned at least one post (0 = none yet).
NoRefetch == [at |-> 0, atSome |-> 0]

Refetched(h, posts) ==
  [at |-> DateNow, atSome |-> IF Len(posts) > 0 THEN DateNow ELSE h.atSome]

\* n = 0: nothing merged since the cache was empty; n = 1: one page-1 fetch
\* (a) merged, and nothing else; n = 2: anything more.
NoMerge == [n |-> 0, a |-> <<>>]
OtherMerges == [n |-> 2, a |-> <<>>]

Merged(m, page, posts) ==
  IF m.n = 0 /\ page = 1 THEN [n |-> 1, a |-> posts] ELSE OtherMerges

IdleReq ==
  [pc |-> "idle", key |-> "k1", page |-> 1, interval |-> 0,
   posts |-> <<>>, fetched |-> <<>>, existing |-> <<>>,
   invoked |-> FALSE, threw |-> FALSE,
   status |-> 0, cached |-> FALSE]

Free(r) == req[r].pc \in {"idle", "done"}

\* The response of a finished request: HTTP status, body.posts, body.cached.
Respond(rec, status, posts, cached) ==
  [rec EXCEPT !.pc = "done", !.status = status, !.posts = posts,
              !.cached = cached, !.existing = <<>>, !.interval = 0]

CacheInit ==
  /\ deployed \in Handlers
  /\ cachePosts = [k \in Keys |-> <<>>]
  /\ cacheTimestamps = [k \in Keys |-> 0]
  /\ now = 1
  /\ req = [r \in Requests |-> IdleReq]
  /\ lastRefetch = [k \in Keys |-> NoRefetch]
  /\ merged = [k \in Keys |-> NoMerge]

Init ==
  /\ CacheInit
  /\ walk = NoWalk
  /\ net = NoFetch
  /\ lib = NoCall

Tick ==
  /\ now < MaxNow
  /\ now' = now + 1
  /\ UNCHANGED <<deployed, cachePosts, cacheTimestamps, req, hist>>

\* ------------------------------------- filter-keyed handler (part_011)

\* let posts = await getCachedPosts(cacheKey)
GetStart(r) ==
  /\ deployed = "filterKeyed"
  /\ Free(r)
  /\ \E k \in Keys, page \in Pages, param \in RefreshParams :
       req' = [req EXCEPT ![r] =
                 [IdleReq EXCEPT !.pc = "check", !.key = k, !.page = page,
                                 !.interval = refreshIntervalHours(param),
                                 !.posts = cachePosts[k]]]
  /\ UNCHANGED <<deployed, cachePosts, cacheTimestamps, now, hist>>

\* const needsRefresh = await shouldRefresh(cacheKey, refreshIntervalHours);
\* the else branch of `if (shouldFetch)` answers from the cache.
GetCheck(r) ==
  /\ deployed = "filterKeyed"
  /\ req[r].pc = "check"
  /\ LET rec == req[r]
         needsRefresh == shouldRefresh(cacheTimestamps[rec.key], DateNow, rec.interval)
         isCacheEmpty == Len(rec.posts) = 0
     IN IF shouldFetch(rec.page, needsRefresh, isCacheEmpty)
        THEN req' = [req EXCEPT ![r].pc = "fetch"]
        ELSE req' = [req EXCEPT ![r] = Respond(rec, 200, rec.posts, TRUE)]
  /\ UNCHANGED <<deployed, cachePosts, cacheTimestamps, now, hist>>

\* await fetchPostsFromSource(...) resolves with result.posts
GetFetchOk(r) ==
  /\ deployed = "filterKeyed"
  /\ req[r].pc = "fetch"
  /\ \E result \in FetchResults :
       LET rec == [req[r] EXCEPT !.invoked = TRUE, !.fetched = result,
                                 !.interval = 0] IN
       IF Len(result) > 0
       THEN \* posts = fetchedPosts: the response carries the fresh posts
            /\ req' = [req EXCEPT ![r] = [rec EXCEPT !.pc = "appendRead",
                                                     !.posts = result]]
            /\ UNCHANGED hist
       ELSE \* Fetched 0 posts: keep the cache; page 1 answers with the cached posts
            /\ req' = [req EXCEPT ![r] =
                         Respond(rec, 200,
                                 IF rec.page = 1 /\ Len(rec.posts) > 0
                                 THEN rec.posts ELSE <<>>,
                                 FALSE)]
            /\ lastRefetch' =
                 IF rec.page = 1
                 THEN [lastRefetch EXCEPT ![rec.key] = Refetched(@, result)]
                 ELSE lastRefetch
            /\ merged' = [merged EXCEPT ![rec.key] = Merged(@, rec.page, result)]
  /\ UNCHANGED <<deployed, cachePosts, cacheTimestamps, now>>

\* await fetchPostsFromSource(...) rejects: fall back to the cache if any
GetFetchThrows(r) ==
  /\ deployed = "filterKeyed"
  /\ req[r].pc = "fetch"
  /\ LET rec == [req[r] EXCEPT !.invoked = TRUE, !.threw = TRUE] IN
       req' = [req EXCEPT ![r] =
                 IF Len(rec.posts) = 0
                 THEN Respond(rec, 500, <<>>, FALSE)
                 ELSE Respond(rec, 200, rec.posts, FALSE)]
  /\ UNCHANGED <<deployed, cachePosts, cacheTimestamps, now, hist>>

\* ------------------------------------------------ lib/cache.ts, stepwise

\* appendCachedPosts: const existingPosts = await getCachedPosts(sourceId)
AppendRead(r) ==
  /\ req[r].pc = "appendRead"
  /\ req' = [req EXCEPT ![r].existing = cachePosts[req[r].key],
                        ![r].pc = "appendWrite"]
  /\ UNCHANGED <<deployed, cachePosts, cacheTimestamps, now, hist>>

\* AppendWrite with the handler stamping after a fetch of any page
AppendWrite_StampAnyPage(r) ==
  /\ req[r].pc = "appendWrite"
  /\ LET rec == req[r] IN
       /\ cachePosts' = [cachePosts EXCEPT ![rec.key] =
                           appendCachedPosts(rec.existing, rec.fetched)]
       /\ IF deployed = "filterKeyed"
          THEN req' = [req EXCEPT ![r].pc = "stamp", ![r].existing = <<>>]
          ELSE req' = [req EXCEPT ![r] = Respond(rec, 200, rec.fetched, FALSE)]
       /\ merged' = [merged EXCEPT ![rec.key] = Merged(@, rec.page, rec.fetched)]
  /\ UNCHANGED <<deployed, cacheTimestamps, now, lastRefetch>>

\* appendCachedPosts: if (uniqueNewPosts.length > 0) await setCachedPosts(...)
\* Afterwards the handler stamps a page-1 fetch (filter-keyed) or responds.
AppendWrite(r) ==
  /\ req[r].pc = "appendWrite"
  /\ LET rec == req[r] IN
       /\ cachePosts' = [cachePosts EXCEPT ![rec.key] =
                           appendCachedPosts(rec.existing, rec.fetched)]
       /\ IF deployed = "filterKeyed" /\ rec.page = 1
          THEN req' = [req EXCEPT ![r].pc = "stamp", ![r].existing = <<>>]
          ELSE req' = [req EXCEPT ![r] = Respond(rec, 200, rec.fetched, FALSE)]
       /\ merged' = [merged EXCEPT ![rec.key] = Merged(@, rec.page, rec.fetched)]
  /\ UNCHANGED <<deployed, cacheTimestamps, now, lastRefetch>>

\* Stamp without the call of setLastFetchTime
Stamp_NoTimestamp(r) ==
  /\ req[r].pc = "stamp"
  /\ req' = [req EXCEPT ![r] = Respond(req[r], 200, req[r].fetched, FALSE)]
  /\ lastRefetch' = [lastRefetch EXCEPT ![req[r].key] = Refetched(@, req[r].fetched)]
  /\ UNCHANGED <<deployed, cachePosts, cacheTimestamps, now, merged>>

\* await setLastFetchTime(cacheKey, Date.now()); then the response is sent
Stamp(r) ==
  /\ req[r].pc = "stamp"
  /\ LET rec == req[r] IN
       /\ cacheTimestamps' = [cacheTimestamps EXCEPT ![rec.key] = DateNow]
       /\ req' = [req EXCEPT ![r] = Respond(rec, 200, rec.fetched, FALSE)]
       /\ lastRefetch' = [lastRefetch EXCEPT ![rec.key] = Refetched(@, rec.fetched)]
  /\ UNCHANGED <<deployed, cachePosts, now, merged>>

\* ------------------------- sourceId-keyed handler (app/api/fetch/route.ts)

\* const needsRefresh = page === 1 ? await shouldRefresh(...) : true
LegacyStart(r) ==
  /\ deployed = "sourceKeyed"
  /\ Free(r)
  /\ \E k \in Keys, page \in Pages, param \in RefreshParams :
       LET needsRefresh ==
             IF page = 1
             THEN shouldRefresh(cacheTimestamps[k], DateNow, refreshIntervalHours(param))
             ELSE TRUE
       IN req' = [req EXCEPT ![r] =
                    [IdleReq EXCEPT !.pc = IF ~needsRefresh /\ page = 1
                                           THEN "readCached" ELSE "fetch",
                                    !.key = k, !.page = page,
                                    !.interval = refreshIntervalHours(param)]]
  /\ UNCHANGED <<deployed, cachePosts, cacheTimestamps, now, hist>>

\* const cachedPosts = await getCachedPosts(sourceId); return { posts: cachedPosts, cached: true }
LegacyReadCached(r) ==
  /\ deployed = "sourceKeyed"
  /\ req[r].pc = "readCached"
  /\ req' = [req EXCEPT ![r] = Respond(req[r], 200, cachePosts[req[r].key], TRUE)]
  /\ UNCHANGED <<deployed, cachePosts, cacheTimestamps, now, hist>>

\* const result = await fetchPostsFromSource(...)
LegacyFetchOk(r) ==
  /\ deployed = "sourceKeyed"
  /\ req[r].pc = "fetch"
  /\ \E result \in FetchResults :
       req' = [req EXCEPT ![r].invoked = TRUE, ![r].fetched = result,
                          ![r].interval = 0,
                          ![r].pc = IF req[r].page = 1 THEN "set" ELSE "appendRead"]
  /\ UNCHANGED <<deployed, cachePosts, cacheTimestamps, now, hist>>

\* fetchPostsFromSource rejects: the outer catch answers 500
LegacyFetchThrows(r) ==
  /\ deployed = "sourceKeyed"
  /\ req[r].pc = "fetch"
  /\ req' = [req EXCEPT ![r] =
               Respond([req[r] EXCEPT !.invoked = TRUE, !.threw = TRUE], 500, <<>>, FALSE)]
  /\ UNCHANGED <<deployed, cachePosts, cacheTimestamps, now, hist>>

\* page === 1: await setCachedPosts(sourceId, result.posts)
LegacySet(r) ==
  /\ deployed = "sourceKeyed"
  /\ req[r].pc = "set"
  /\ cachePosts' = [cachePosts EXCEPT ![req[r].key] = req[r].fetched]
  /\ req' = [req EXCEPT ![r].pc = "stamp"]
  /\ merged' = [merged EXCEPT ![req[r].key] = Merged(@, req[r].page, req[r].fetched)]
  /\ UNCHANGED <<deployed, cacheTimestamps, now, lastRefetch>>

\* ------------------------------------------------------------------ spec

\* Requests served one after the other, under a running clock.
Next ==
  \/ Tick /\ UNCHANGED <<walk, net, lib>>
  \/ \E r \in {"r1"} :
       \/ GetStart(r) /\ UNCHANGED <<walk, net, lib>>
       \/ GetCheck(r) /\ UNCHANGED <<walk, net, lib>>
       \/ GetFetchOk(r) /\ UNCHANGED <<walk, net, lib>>
       \/ GetFetchThrows(r) /\ UNCHANGED <<walk, net, lib>>
       \/ AppendRead(r) /\ UNCHANGED <<walk, net, lib>>
       \/ AppendWrite(r) /\ UNCHANGED <<walk, net, lib>>
       \/ Stamp(r) /\ UNCHANGED <<walk, net, lib>>
       \/ LegacyStart(r) /\ UNCHANGED <<walk, net, lib>>
       \/ LegacyReadCached(r) /\ UNCHANGED <<walk, net, lib>>
       \/ LegacyFetchOk(r) /\ UNCHANGED <<walk, net, lib>>
       \/ LegacyFetchThrows(r) /\ UNCHANGED <<walk, net, lib>>
       \/ LegacySet(r) /\ UNCHANGED <<walk, net, lib>>

Spec == Init /\ [][Next]_vars

\* Two overlapping requests to the filter-keyed handler, within one clock tick.
InitConcurrent ==
  /\ Init
  /\ deployed = "filterKeyed"

NextConcurrent ==
  \E r \in Requests :
    \/ GetStart(r) /\ UNCHANGED <<walk, net, lib>>
    \/ GetCheck(r) /\ UNCHANGED <<walk, net, lib>>
    \/ GetFetchOk(r) /\ UNCHANGED <<walk, net, lib>>
    \/ GetFetchThrows(r) /\ UNCHANGED <<walk, net, lib>>
    \/ AppendRead(r) /\ UNCHANGED <<walk, net, lib>>
    \/ AppendWrite(r) /\ UNCHANGED <<walk, net, lib>>
    \/ Stamp(r) /\ UNCHANGED <<walk, net, lib>>

SpecConcurrent == InitConcurrent /\ [][NextConcurrent]_vars

\* A client paging through one adapter against one upstream.
InitWalk ==
  /\ CacheInit
  /\ deployed = "filterKeyed"
  /\ walk \in [adapter : Adapters, up : Upstreams, page : {0}, posts : {0},
               hasMore : {TRUE}, failed : {FALSE}, threw : {FALSE}]
  /\ net = NoFetch
  /\ lib = NoCall

NextWalk ==
  \/ RequestNextPage
  \/ RequestNextPageFails

SpecWalk == InitWalk /\ [][NextWalk]_vars

\* One call of fetchUrl against an unreliable network.
InitFetchUrl ==
  /\ CacheInit
  /\ deployed = "filterKeyed"
  /\ walk = NoWalk
  /\ net = NoFetch
  /\ lib = NoCall

NextFetchUrl ==
  \/ FetchUrlStart
  \/ RetryLoop
  \/ FetchFull
  \/ FetchReduced
  \/ RetryCatch
  \/ RetrySleep

SpecFetchUrl == InitFetchUrl /\ [][NextFetchUrl]_vars

\* One call of fetchPostsFromSource for any source record.
InitDispatch ==
  /\ CacheInit
  /\ deployed = "filterKeyed"
  /\ walk = NoWalk
  /\ net = NoFetch
  /\ lib \in [fn : {"fetchPostsFromSource"}, source : Sources, pc : {"called"},
              used : {{}}, outcome : {"pending"}, error : {"none"}]

NextDispatch == FetchPostsFromSourceRuns

SpecDispatch == InitDispatch /\ [][NextDispatch]_vars

\* One call of constructPageUrl for any listing url, page and pattern.
InitPageUrl ==
  /\ CacheInit
  /\ deployed = "filterKeyed"
  /\ walk = NoWalk
  /\ net = NoFetch
  /\ lib \in [fn : {"constructPageUrl"}, blogListUrl : ListingUrls,
              page : 1..MaxPageNo,
              detectedPatternUrl : {<<>>} \cup {<<u>> : u \in PatternUrls},
              pc : {"called"}, result : {[from |-> "none"]}]

NextPageUrl == ConstructPageUrlRuns

SpecPageUrl == InitPageUrl /\ [][NextPageUrl]_vars

\* The extraction of fetchFromHtml on any page.
InitExtract ==
  /\ CacheInit
  /\ deployed = "filterKeyed"
  /\ walk = NoWalk
  /\ net = NoFetch
  /\ lib \in [fn : {"fetchFromHtml"}, page : HtmlPages, pc : {"called"},
              threw : {FALSE}, posts : {<<>>}]

NextExtract == FetchFromHtmlExtracts

SpecExtract == InitExtract /\ [][NextExtract]_vars

\* fetchFromRss on any feed.
InitRss ==
  /\ CacheInit
  /\ deployed = "filterKeyed"
  /\ walk = NoWalk
  /\ net = NoFetch
  /\ lib \in [fn : {"fetchFromRss"}, feed : Feeds, pc : {"called"}, posts : {<<>>}]

NextRss == FetchFromRssProcesses

SpecRss == InitRss /\ [][NextRss]_vars

\* Repeated extractions of listings of one source by one extractor.
InitPostId ==
  /\ CacheInit
  /\ deployed = "filterKeyed"
  /\ walk = NoWalk
  /\ net = NoFetch
  /\ lib \in [fn : {"extractIds"}, extractor : IdExtractors, runs : {0}, ids : {{}}]

NextPostId == ExtractListing

SpecPostId == InitPostId /\ [][NextPostId]_vars

\* fetchFromHtml of any page against any robots.txt.
InitRobots ==
  /\ CacheInit
  /\ deployed = "filterKeyed"
  /\ walk = NoWalk
  /\ net = NoFetch
  /\ lib \in [fn : {"fetchFromHtml-robots"}, robots : RobotsOutcomes, page : Pages,
              pc : {"called"}, requested : {<<>>}, error : {"none"}]

NextRobots == FetchFromHtmlChecksRobots \/ FetchFromHtmlRequestsListing

SpecRobots == InitRobots /\ [][NextRobots]_vars

\* One request per source stamping its last-fetch time, in any interleaving.
InitStamps ==
  /\ CacheInit
  /\ deployed = "filterKeyed"
  /\ walk = NoWalk
  /\ net = NoFetch
  /\ lib \in [fn : {"setLastFetchTime"}, store : CacheStores,
              file : [CacheSources -> {0, 1}], clock : {1},
              call : {[s \in CacheSources |-> NoStamp]}]

NextStamps ==
  \/ StampClockTick
  \/ \E s \in CacheSources :
       \/ SetLastFetchTimeInMemory(s)
       \/ SetLastFetchTimeReads(s)
       \/ SetLastFetchTimeWrites(s)

SpecStamps == InitStamps /\ [][NextStamps]_vars

\* GET /api/posts with any limit, offset and sourceId over any cache.
InitPosts ==
  /\ CacheInit
  /\ deployed = "filterKeyed"
  /\ walk = NoWalk
  /\ net = NoFetch
  /\ lib \in [fn : {"GET /api/posts"}, limitParam : ParamStrings, offsetParam : ParamStrings,
              sourceId : {"", "s1", "s2"}, counts : [CacheSources -> PostCounts],
              pc : {"called"}, posts : {<<>>},
              pagination : {[total |-> 0, limit |-> 0, offset |-> 0, hasMore |-> FALSE]}]

NextPosts == GetPosts

SpecPosts == InitPosts /\ [][NextPosts]_vars

\* A client walking the pages of a generic-HTML source through /api/fetch.
InitSession ==
  /\ CacheInit
  /\ deployed = "filterKeyed"
  /\ walk = NoWalk
  /\ net = NoFetch
  /\ lib \in [fn : {"session"}, client : SessionClients, page : {0},
              outcome : {"none"}, given : {<<>>}, url : {<<>>},
              detected : {<<>>}, held : {<<>>}]

NextSession == SessionRequestsNextPage

SpecSession == InitSession /\ [][NextSession]_vars

\* A caller walking the pages of a full-fetch-and-slice adapter.
InitSlice ==
  /\ CacheInit
  /\ deployed = "filterKeyed"
  /\ walk = NoWalk
  /\ net = NoFetch
  /\ lib \in [fn : {"slice"}, adapter : SliceAdapters, D : Datasets,
              maxPostsPerPage : 1..MaxPageSize, page : {0}, posts : {<<>>},
              hasMore : {FALSE}, walked : {<<>>}]

NextSlice == SliceAdapterReturnsPage

SpecSlice == InitSlice /\ [][NextSlice]_vars

\* Calls of a full-fetch-and-slice adapter over time.
InitDataset ==
  /\ CacheInit
  /\ deployed = "filterKeyed"
  /\ walk = NoWalk
  /\ net = NoFetch
  /\ lib \in [fn : {"dataset"}, adapter : TtlAdapters, clock : {1}, copy : {<<>>},
              call : {[c \in TtlCalls |-> NoTtlCall]}]

NextDataset ==
  \/ TtlClockTick
  \/ \E c \in TtlCalls :
       \/ SliceAdapterCalled(c)
       \/ DatasetFetched(c)
       \/ DatasetFetchFails(c)

SpecDataset == InitDataset /\ [][NextDataset]_vars

\* One invocation of an adapter that fetches post details in batches.
InitBatches ==
  /\ CacheInit
  /\ deployed = "filterKeyed"
  /\ walk = NoWalk
  /\ net = NoFetch
  /\ lib \in [fn : {"batches"}, adapter : BatchAdapters, n : 0..MaxBatchItems,
              i : {0}, pc : {"loop"}, inflight : {{}}, rejected : {FALSE}]

NextBatches ==
  \/ BatchStarts
  \/ \E j \in 1..MaxBatchItems : DetailFetchSettles(j)
  \/ PromiseAllResumes
  \/ BatchLoopEnds

SpecBatches == InitBatches /\ [][NextBatches]_vars

\* Two /api/fetch requests with any filters.
InitCacheKey ==
  /\ CacheInit
  /\ deployed = "filterKeyed"
  /\ walk = NoWalk
  /\ net = NoFetch
  /\ lib \in [fn : {"cacheKey"}, a : Combinations, b : Combinations, pc : {"called"},
              keys : {<<>>}, files : {<<>>}]

NextCacheKey == CacheKeysBuilt

SpecCacheKey == InitCacheKey /\ [][NextCacheKey]_vars

TypeOK ==
  /\ deployed \in Handlers
  /\ now \in 1..MaxNow
  /\ \A k \in Keys : cacheTimestamps[k] \in {0} \cup {h * TickHours * MsPerHour : h \in 1..MaxNow}

\* ============================================================== claims

NoDuplicateUrls(posts) ==
  \A i, j \in 1..Len(posts) : posts[i] = posts[j] => i = j

IntervalMs(rec) == rec.interval * MsPerHour

\* The step is one of request r, which had been started before it.
StepOf(r) == req[r].pc \notin {"idle", "done"} /\ req'[r] # req[r]

\* Request r finishes in this step.
Completes(r) == req[r].pc \notin {"idle", "done"} /\ req'[r].pc = "done"

\* C1: after any sequence of /api/fetch requests to the filter-keyed handler,
\* the cached post list of a key never holds two posts with the same url.
C1_CacheNeverHoldsDuplicateUrl ==
  deployed = "filterKeyed" => \A k \in Keys : NoDuplicateUrls(cachePosts[k])

\* C2: a step of a page-1 request that has refetched never removes a post from
\* the cached set of its key: what was cached before is cached after.
C2_Page1RefetchKeepsCachedPosts ==
  [][\A r \in Requests :
       (StepOf(r) /\ req[r].page = 1 /\ req[r].invoked)
         => Range(cachePosts[req[r].key]) \subseteq Range(cachePosts'[req[r].key])]_vars

\* C3: a request whose fetch returned zero posts while the cache of its key is
\* non-empty leaves the cached posts exactly as they were.
C3_EmptyFetchLeavesCache ==
  [][\A r \in Requests :
       (StepOf(r) /\ req[r].invoked /\ ~req[r].threw /\ req[r].fetched = <<>>
          /\ cachePosts[req[r].key] # <<>>)
         => cachePosts'[req[r].key] = cachePosts[req[r].key]]_vars

\* C4: when two overlapping requests for the same key have both completed
\* their merge, the cached set holds the posts merged by each of them.
C4_NoLostUpdate ==
  (/\ req["r1"].pc = "done" /\ req["r1"].invoked /\ ~req["r1"].threw
   /\ req["r2"].pc = "done" /\ req["r2"].invoked /\ ~req["r2"].threw
   /\ req["r1"].key = req["r2"].key)
    => (Range(req["r1"].fetched) \cup Range(req["r2"].fetched))
          \subseteq Range(cachePosts[req["r1"].key])

\* C5: from an empty cache, the step that merges a page-2 fetch returning B
\* right after a page-1 fetch returning A leaves exactly one post per distinct
\* url of A and B in the cache.
C5_TwoPagesMergeToUnion ==
  [][\A r \in Requests :
       (StepOf(r) /\ req'[r].page = 2 /\ merged[req[r].key].n = 1
          /\ merged'[req[r].key] # merged[req[r].key])
         => /\ NoDuplicateUrls(cachePosts'[req[r].key])
            /\ Range(cachePosts'[req[r].key])
                 = Range(merged[req[r].key].a) \cup Range(req'[r].fetched)]_vars

\* The cache state of a key as the claims name it, at the moment request r
\* checks it: Empty = nothing cached or no page-1 fetch recorded; Stale = the
\* time since the recorded page-1 fetch exceeds the request's refresh interval.
KeyEmpty(r) ==
  cachePosts[req[r].key] = <<>> \/ cacheTimestamps[req[r].key] = 0

KeyStale(r) ==
  /\ cacheTimestamps[req[r].key] # 0
  /\ DateNow - cacheTimestamps[req[r].key] > IntervalMs(req[r])

Decides(r) ==
  \/ req[r].pc = "check" /\ req'[r].pc # "check"
  \/ Free(r) /\ req'[r].pc \in {"readCached", "fetch"}

ServedFromCache(rec) ==
  \/ rec.pc = "readCached"
  \/ rec.pc = "done" /\ rec.cached /\ ~rec.invoked

\* a page-1 request arriving within its refresh interval after time `at`
\* (at # 0) is served from the cache
ServedWithin(at) ==
  \A r \in Requests :
    LET asked == IF req[r].pc = "check" THEN req[r] ELSE req'[r] IN
    (Decides(r) /\ asked.page = 1 /\ at[asked.key] # 0
       /\ DateNow - at[asked.key] <= IntervalMs(asked))
      => ServedFromCache(req'[r])

\* C7 as stated: whenever a page-1 request completes a refetch without error,
\* the last-fetch timestamp of its key is the time of that refetch, and a
\* page-1 request arriving within the refresh interval afterwards is served
\* from the cache.
C7_RefetchMakesFresh ==
  [][/\ \A r \in Requests :
          (Completes(r) /\ req'[r].page = 1 /\ req'[r].invoked /\ ~req'[r].threw)
            => cacheTimestamps'[req'[r].key] = DateNow
     /\ ServedWithin([k \in Keys |-> lastRefetch[k].at])]_vars

\* C7 amended: the same, for a refetch that returned at least one post.
C7_NonEmptyRefetchMakesFresh ==
  [][/\ \A r \in Requests :
          (Completes(r) /\ req'[r].page = 1 /\ req'[r].invoked /\ ~req'[r].threw
             /\ req'[r].fetched # <<>>)
            => cacheTimestamps'[req'[r].key] = DateNow
     /\ ServedWithin([k \in Keys |-> lastRefetch[k].atSome])]_vars

\* A page-1 request has been answered from the cache after an earlier page-1
\* refetch that returned posts, within the default interval of that refetch.
C7_Witness ==
  \E r \in Requests :
    /\ req[r].pc = "done" /\ req[r].page = 1 /\ req[r].cached
    /\ lastRefetch[req[r].key].atSome # 0
    /\ cacheTimestamps[req[r].key] = lastRefetch[req[r].key].atSome
    /\ DateNow > lastRefetch[req[r].key].atSome

\* C8: a request with page > 1 always invokes the adapter; it is never
\* answered from the cache.
C8_LaterPagesAlwaysFetch ==
  \A r \in Requests :
    req[r].page > 1
      => /\ req[r].pc # "readCached"
         /\ req[r].pc = "done" => (req[r].invoked /\ ~req[r].cached)
         /\ req[r].pc \in {"appendRead", "appendWrite", "set", "stamp"} => req[r].invoked

\* A page > 1 request has invoked the adapter although its key holds posts
\* and a last-fetch time.
C8_Witness ==
  \E r \in Requests :
    /\ req[r].pc = "done" /\ req[r].page > 1 /\ req[r].invoked
    /\ cachePosts[req[r].key] # <<>> /\ cacheTimestamps[req[r].key] # 0

\* C9: a request whose adapter call failed answers with the posts cached for
\* its key when there are any, and with an error only when there are none.
C9_FailedFetchFallsBackToCache ==
  \A r \in Requests :
    (req[r].pc = "done" /\ req[r].threw)
      => IF cachePosts[req[r].key] # <<>>
         THEN req[r].status = 200 /\ req[r].posts = cachePosts[req[r].key]
         ELSE req[r].status = 500

\* C10: against an upstream that runs out of content, paging 1, 2, 3, ...
\* through any adapter reaches hasMore = false: no walk is still being told
\* hasMore = true at page MaxWalkPage.
C10_PaginationTerminates ==
  walk.page = MaxWalkPage => ~walk.hasMore

\* Every walk other than a generic-HTML one over a site that keeps a
\* pagination anchor on its empty pages has ended well before MaxWalkPage.
WalkEndsUnlessHtmlNav ==
  (walk.page >= CustomPageLimit + MaxContentPages + 1 /\ walk.hasMore)
    => (walk.adapter = "generic-html" /\ walk.up.nav)

\* C11: a fetch of a page N > 1 that yields zero posts reports hasMore = false.
C11_EmptyLaterPageReportsNoMore ==
  (walk.page > 1 /\ walk.posts = 0) => ~walk.hasMore

\* C12: when the HTTP fetch of the requested page fails outright with nothing
\* collected, the adapter call rejects; it never returns a result.
C12_FetchFailureReachesCaller ==
  walk.failed => walk.threw

\* C13 as stated: when every request fails, fetchUrl throws after exactly the
\* configured number of requests.
C13_ThrowsAfterRetryCountRequests ==
  net.pc = "threw" => net.full + net.reduced = net.retries

\* C13 amended: fetchUrl throws after exactly the configured number of rounds
\* of its retry loop, each issuing one full-header request; a round issues a
\* second, reduced-header request only when its failure is taken for a
\* TLS/certificate failure, and without such a failure the full-header
\* requests are all the requests made.
C13_ThrowsAfterRetryCountRounds ==
  net.pc = "threw"
    => /\ net.rounds = net.retries
       /\ net.full = net.retries
       /\ net.reduced <= net.retries
       /\ (~net.tls /\ ~net.urlNamesTls) => net.full + net.reduced = net.retries

\* fetchUrl with the default retry count has thrown after three failed requests.
C13_Witness ==
  /\ net.pc = "threw" /\ net.retries = MAX_RETRIES
  /\ net.full = MAX_RETRIES /\ net.reduced = 0

\* C14: over one fetchUrl call that met a TLS/certificate error the
\* reduced-header request is issued once, and no request follows a failed
\* reduced-header request.
C14_ReducedHeadersTriedOnce ==
  /\ net.reduced <= 1
  /\ (net.pc \in {"returned", "threw"} /\ net.tls) => net.reduced = 1
  /\ net.reducedFailed => net.pc \notin {"fetch", "reduced", "returned"}

\* The strategy that applies to a source, in the order the claims give it.
HasCustomAdapter(source) == source.id \in CustomSourceIds

\* ... with the two feed-backed adapters applying only to a source with a feed.
CustomAdapterApplies(source) ==
  /\ source.id \in CustomSourceIds
  /\ source.id \in RssBackedSourceIds => source.rss

FirstApplicable(custom, source) ==
  IF custom THEN "custom"
  ELSE IF source.rss THEN "rss"
  ELSE IF source.allowScrape /\ source.blogListUrl THEN "html"
  ELSE "none"

\* C15 as stated: a finished call has used exactly the first strategy that
\* applies (custom adapter registered for the id, else RSS, else HTML), and
\* none when none applies.
C15_OneStrategyInOrder ==
  lib.fn = "fetchPostsFromSource" /\ lib.pc = "done"
    => LET first == FirstApplicable(HasCustomAdapter(lib.source), lib.source) IN
       IF first = "none" THEN lib.used = {} /\ lib.outcome = "rejected"
       ELSE lib.used = {first}

\* C15 amended: the same, the adapters of amazon-science and deepmind
\* applying only when the source declares a feed URL.
C15_OneStrategyInOrderGivenFeed ==
  lib.fn = "fetchPostsFromSource" /\ lib.pc = "done"
    => LET first == FirstApplicable(CustomAdapterApplies(lib.source), lib.source) IN
       IF first = "none" THEN lib.used = {} /\ lib.outcome = "rejected"
       ELSE lib.used = {first}

\* A source with a feed and a scrapeable listing, and no adapter of its own,
\* was fetched through RSS alone, and the RSS failure was not made up for.
C15_Witness ==
  /\ lib.fn = "fetchPostsFromSource" /\ lib.pc = "done"
  /\ lib.source.id = "test-source" /\ lib.source.rss
  /\ lib.source.allowScrape /\ lib.source.blogListUrl
  /\ lib.used = {"rss"} /\ lib.outcome = "rejected"

FirstConventionReplaced(url, page) ==
  IF url.pageParam # 0 THEN [url EXCEPT !.pageParam = page]
  ELSE IF url.pParam # 0 THEN [url EXCEPT !.pParam = page]
  ELSE IF url.pageSeg # 0 THEN [url EXCEPT !.pageSeg = page]
  ELSE IF url.pSeg # 0 THEN [url EXCEPT !.pSeg = page]
  ELSE url

HasConvention(url) ==
  url.pageParam # 0 \/ url.pParam # 0 \/ url.pageSeg # 0 \/ url.pSeg # 0

\* C17: for a page N > 1 and a detected pattern that follows one of the four
\* conventions, constructPageUrl returns the pattern with the page number of
\* its first matching convention replaced by N.
C17_PageUrlFromFirstConvention ==
  (lib.fn = "constructPageUrl" /\ lib.pc = "done" /\ lib.page > 1
     /\ lib.detectedPatternUrl # <<>> /\ HasConvention(lib.detectedPatternUrl[1]))
    => lib.result = FirstConventionReplaced(lib.detectedPatternUrl[1], lib.page)

\* C18: when the JSON-LD blocks of a page yield at least one valid post, the
\* posts fetchFromHtml returns are one per complete posting block, in page
\* order, and none comes from the HTML heuristics.
C18_StructuredDataWinsAlone ==
  (lib.fn = "fetchFromHtml" /\ lib.pc = "done" /\ ~lib.threw
     /\ \E i \in 1..Len(lib.page.blocks) : lib.page.blocks[i] = "posting")
    => /\ \A k \in 1..Len(lib.posts) : lib.posts[k][1] = "json-ld"
       /\ {lib.posts[k][2] : k \in 1..Len(lib.posts)}
            = {i \in 1..Len(lib.page.blocks) : lib.page.blocks[i] = "posting"}
       /\ \A k, l \in 1..Len(lib.posts) : k < l => lib.posts[k][2] < lib.posts[l][2]

\* A page with a complete posting block and post links was extracted to the
\* posting alone.
C18_Witness ==
  /\ lib.fn = "fetchFromHtml" /\ lib.pc = "done" /\ ~lib.threw
  /\ lib.page.links > 0
  /\ \E i \in 1..Len(lib.page.blocks) : lib.page.blocks[i] = "posting"
  /\ Len(lib.posts) > 0

\* C19: a malformed JSON-LD block (text that is not JSON, or JSON that is no
\* JSON-LD object at all) does not abort the page, and every complete posting
\* block of the page is still extracted.
C19_MalformedBlockIsSkipped ==
  (lib.fn = "fetchFromHtml" /\ lib.pc = "done"
     /\ \E i \in 1..Len(lib.page.blocks) : lib.page.blocks[i] \in {"invalid-json", "null"})
    => /\ ~lib.threw
       /\ \A i \in 1..Len(lib.page.blocks) :
            lib.page.blocks[i] = "posting" => <<"json-ld", i>> \in Range(lib.posts)

\* C20 as stated: an RSS fetch returns, in feed order, one post for each item
\* of the feed that has a link and a title, up to 70 posts.
C20_RssPostsAreCompleteItemsUpToCap ==
  (lib.fn = "fetchFromRss" /\ lib.pc = "done")
    => LET items == feedItems(lib.feed)
           complete == {i \in 1..Len(items) : items[i] = "complete"}
       IN /\ Range(lib.posts)
               = {i \in complete : Cardinality({j \in complete : j < i}) < RssMaxItems}
          /\ \A k, l \in 1..Len(lib.posts) : k < l => lib.posts[k] < lib.posts[l]

\* C20 amended: an RSS fetch returns, in feed order, one post for each of the
\* first 70 items of the feed that has a link and a title, hence at most 70;
\* the other items are skipped.
C20_RssPostsAreCompleteItemsOfFirst70 ==
  (lib.fn = "fetchFromRss" /\ lib.pc = "done")
    => /\ Len(lib.posts) <= RssMaxItems
       /\ Range(lib.posts)
            = {i \in 1..Len(feedItems(lib.feed)) :
                 i <= RssMaxItems /\ feedItems(lib.feed)[i] = "complete"}
       /\ \A k, l \in 1..Len(lib.posts) : k < l => lib.posts[k] < lib.posts[l]

\* A feed of more than 70 items, some of the first 70 lacking a link or a
\* title and a later one complete, was processed.
C20_Witness ==
  /\ lib.fn = "fetchFromRss" /\ lib.pc = "done"
  /\ Len(feedItems(lib.feed)) > RssMaxItems
  /\ feedItems(lib.feed)[1] # "complete"
  /\ feedItems(lib.feed)[Len(feedItems(lib.feed))] = "complete"
  /\ Len(lib.posts) > 0

\* C21: the id of a post is a function of its source and url only:
\* extracting the same url again, at another time, on another page or at
\* another position of a listing, gives the same id.
C21_IdIsFunctionOfUrl ==
  lib.fn = "extractIds"
    => \A p, q \in lib.ids : p[1] = q[1] => p[2] = q[2]

\* robots.txt was retrieved and its text signals disallow: a line
\* disallowing a path, and no line allowing one
RobotsSignalDisallow(outcome) ==
  /\ outcome.got
  /\ \E i \in 1..Len(outcome.text) : outcome.text[i] \in {"Disallow: /", "Disallow: /tmp"}
  /\ \A i \in 1..Len(outcome.text) : outcome.text[i] # "Allow: /pub"

C23_NoSharedStateAcrossSources ==
  [][lib.fn = "setLastFetchTime"
       => \A s, other \in CacheSources :
            (s # other /\ lib'.call[s] # lib.call[s] /\ lib'.call[other] = lib.call[other])
              => lib'.file[other] = lib.file[other]]_vars

\* the number a parameter spells, if it is a numeral
IsNumeral(s) == Len(s) > 0 /\ \A i \in 1..Len(s) : s[i] \in Range(Digits)

NumeralValue(s) ==
  LET V[i \in 0..Len(s)] == IF i = 0 THEN 0 ELSE 10 * V[i - 1] + digitValue(s[i])
  IN V[Len(s)]

\* the posts of the cache that pass the sourceId filter
Remaining(counts, sourceId) ==
  IF sourceId = "" THEN counts["s1"] + counts["s2"] ELSE counts[sourceId]

\* C24: for any cached post set, any limit >= 1 and any offset >= 0,
\* GET /api/posts returns exactly min(limit, max(0, total - offset)) posts,
\* pagination.total is the number of posts left after filtering, and
\* pagination.hasMore is true exactly when offset + limit < total.
C24_PostsPagination ==
  (/\ lib.fn = "GET /api/posts" /\ lib.pc = "done"
   /\ IsNumeral(lib.limitParam) /\ NumeralValue(lib.limitParam) >= 1
   /\ IsNumeral(lib.offsetParam))
    => LET limit == NumeralValue(lib.limitParam)
           offset == NumeralValue(lib.offsetParam)
           total == Remaining(lib.counts, lib.sourceId)
       IN /\ lib.pagination.total = total
          /\ Len(lib.posts) = Min(limit, Max(0, total - offset))
          /\ lib.pagination.hasMore <=> offset + limit < total

\* A request with a limit and an offset inside the filtered posts was
\* answered with a full page and more to come.
C24_Witness ==
  /\ lib.fn = "GET /api/posts" /\ lib.pc = "done"
  /\ IsNumeral(lib.limitParam) /\ IsNumeral(lib.offsetParam)
  /\ NumeralValue(lib.offsetParam) >= 1
  /\ lib.sourceId = "s1"
  /\ lib.counts["s2"] > 0
  /\ lib.pagination.hasMore
  /\ Len(lib.posts) = NumeralValue(lib.limitParam)

\* C25: in a generic-HTML session the pattern detected on page 1 is the one
\* the url of every later page is built from: the fetch of a page > 1 is
\* given that pattern, builds the page url from it and returns it.
C25_Page1PatternUsedForLaterPages ==
  (lib.fn = "session" /\ lib.page > 1 /\ lib.outcome = "fetched")
    => /\ lib.given = lib.detected
       /\ lib.url = <<constructPageUrl(SessionListingUrl, lib.page, lib.detected)>>
       /\ lib.held = lib.detected

\* the positions lo..hi of a dataset, in order
Positions(lo, hi) == [i \in 1..(IF hi >= lo THEN hi - lo + 1 ELSE 0) |-> lo + i - 1]

\* the items an adapter can return: for LinkedIn those with a detail page
Returnable(adapter, D, i) == adapter = "linkedin-engineering" => D[i] = "detail"

\* C26 as stated: page N returns exactly the items of D at positions
\* [(N-1)k, Nk), hasMore is true exactly when N*k < |D|, and the pages up to
\* hasMore = false return every item of D once and in order.
C26_PagesAreSlicesOfDataset ==
  (lib.fn = "slice" /\ lib.page >= 1)
    => LET k == lib.maxPostsPerPage
           N == lib.page
       IN /\ lib.posts = Positions((N - 1) * k + 1, Min(N * k, Len(lib.D)))
          /\ lib.hasMore <=> N * k < Len(lib.D)
          /\ ~lib.hasMore => lib.walked = Positions(1, Len(lib.D))

\* C26 amended: page N returns, in order, the items of D at positions
\* [(N-1)k, Nk) that the adapter can return: all of them, and for LinkedIn
\* those whose detail page was fetched and has a title; hasMore is true
\* exactly when N*k < |D|; the pages up to hasMore = false return every
\* returnable item of D once and in order.
C26_PagesAreSlicesOfReturnableItems ==
  (lib.fn = "slice" /\ lib.page >= 1)
    => LET k == lib.maxPostsPerPage
           N == lib.page
           keep(i) == Returnable(lib.adapter, lib.D, i)
       IN /\ lib.posts = SelectSeq(Positions((N - 1) * k + 1, Min(N * k, Len(lib.D))), keep)
          /\ lib.hasMore <=> N * k < Len(lib.D)
          /\ ~lib.hasMore => lib.walked = SelectSeq(Positions(1, Len(lib.D)), keep)

\* A walk of more than one page over a LinkedIn dataset with an item that
\* has no detail page came to its end.
C26_Witness ==
  /\ lib.fn = "slice" /\ lib.page > 1 /\ ~lib.hasMore
  /\ lib.adapter = "linkedin-engineering"
  /\ \E i \in 1..Len(lib.D) : lib.D[i] = "no-detail"
  /\ Len(lib.walked) > lib.maxPostsPerPage

\* call c begins in this step
TtlCallBegins(c) ==
  lib.call[c].pc \in {"idle", "done"} /\ lib'.call[c] # lib.call[c]

\* the dataset request of call c fails in this step
TtlCallFails(c) ==
  lib.call[c].pc = "fetching" /\ lib'.call[c].served = "failed"

\* there is a copy, fetched less than the TTL ago
WithinTtl ==
  lib.copy # <<>> /\ TtlNowMs(lib.clock) - lib.copy[1].fetchedAt < CACHE_TTL

\* C27 as stated: a page request arriving within the TTL (1 hour) of the
\* fetch is served from the in-memory copy without any upstream request; a
\* request arriving when there is no copy or the TTL has elapsed fetches
\* upstream; a failed fetch never replaces the in-memory copy.
C27_WithinTtlNoUpstreamRequest ==
  [][lib.fn = "dataset"
       => \A c \in TtlCalls :
            /\ (TtlCallBegins(c) /\ WithinTtl)
                 => /\ lib'.call[c].served = "memory"
                    /\ lib'.call[c].requests = {}
                    /\ lib'.copy = lib.copy
            /\ (TtlCallBegins(c) /\ ~WithinTtl)
                 => "dataset" \in lib'.call[c].requests
            /\ TtlCallFails(c) => lib'.copy = lib.copy]_vars

\* C27 amended: a page request arriving within the TTL of the fetch is
\* served from the in-memory copy without requesting the dataset (the
\* LinkedIn adapter still requests the detail pages of the posts of the
\* page); a request arriving when there is no copy or the TTL has elapsed
\* requests the dataset; a failed fetch never replaces the in-memory copy.
C27_WithinTtlNoDatasetRequest ==
  [][lib.fn = "dataset"
       => \A c \in TtlCalls :
            /\ (TtlCallBegins(c) /\ WithinTtl)
                 => /\ lib'.call[c].served = "memory"
                    /\ "dataset" \notin lib'.call[c].requests
                    /\ lib.adapter = "apple-ml" => lib'.call[c].requests = {}
                    /\ lib'.copy = lib.copy
            /\ (TtlCallBegins(c) /\ ~WithinTtl)
                 => "dataset" \in lib'.call[c].requests
            /\ TtlCallFails(c) => lib'.copy = lib.copy]_vars

\* A LinkedIn page was served from a copy younger than the TTL, with detail
\* requests, after the copy had been fetched again once its TTL had elapsed.
C27_Witness ==
  /\ lib.fn = "dataset"
  /\ lib.adapter = "linkedin-engineering"
  /\ lib.copy # <<>> /\ lib.copy[1].data > TicksPerTtl
  /\ \E c \in TtlCalls :
       /\ lib.call[c].served = "memory"
       /\ lib.call[c].requests = {"detail"}
       /\ lib.call[c].now - lib.copy[1].fetchedAt < CACHE_TTL

\* C28: within one adapter invocation at most 5 post-detail fetches are in
\* flight at any moment: a new batch of detail fetches is started only
\* after every fetch of the previous batch has settled.
C28_AtMostFiveDetailFetchesInFlight ==
  [][lib.fn = "batches"
       => /\ Cardinality(lib'.inflight) <= 5
          /\ lib'.inflight \ lib.inflight # {} => lib.inflight = {}]_vars

\* The second batch of an invocation is in flight.
C28_Witness ==
  /\ lib.fn = "batches"
  /\ lib.i > 0
  /\ lib.inflight # {}
  /\ lib.pc = "awaiting"

\* the combination a request stands for: category 'all' is no category
SameCombination(a, b) ==
  /\ a.sourceId = b.sourceId
  /\ a.researchArea = b.researchArea
  /\ \/ a.category = b.category
     \/ {a.category, b.category} = {<<>>, <<"a", "l", "l">>}

\* C29: distinct (sourceId, category, researchArea) combinations are stored
\* under distinct cache records: neither the cache key nor the file name
\* derived from it coincide for two different combinations.
C29_DistinctFiltersDistinctRecords ==
  (lib.fn = "cacheKey" /\ lib.pc = "done" /\ ~SameCombination(lib.a, lib.b))
    => /\ lib.keys[1] # lib.keys[2]
       /\ lib.files[1] # lib.files[2]

\* C30: in the filter-keyed handler the last-fetch timestamp of a cache key
\* changes only in a page-1 request whose fetch returned at least one post;
\* requests for page > 1, requests served from the cache, failed fetches
\* and fetches of zero posts leave the timestamps unchanged.
C30_TimestampOnlyOnPage1Posts ==
  [][deployed = "filterKeyed"
       => /\ \A k \in Keys :
               cacheTimestamps'[k] # cacheTimestamps[k]
                 => \E r \in Requests :
                      /\ StepOf(r) /\ req[r].key = k /\ req[r].page = 1
                      /\ req[r].invoked /\ ~req[r].threw /\ req[r].fetched # <<>>
          /\ \A r \in Requests :
               (StepOf(r) /\ (\/ req'[r].page > 1
                              \/ req'[r].cached
                              \/ req'[r].threw
                              \/ (req'[r].invoked /\ req'[r].fetched = <<>>)))
                 => cacheTimestamps' = cacheTimestamps]_vars

\* A page-1 fetch that returned posts has stamped its key with the time of
\* the fetch, after the clock had advanced.
C30_Witness ==
  /\ deployed = "filterKeyed"
  /\ \E r \in Requests :
       /\ req[r].pc = "done" /\ req[r].page = 1
       /\ req[r].invoked /\ ~req[r].threw /\ req[r].fetched # <<>>
       /\ cacheTimestamps[req[r].key] = DateNow
       /\ lastRefetch[req[r].key].atSome = DateNow
       /\ now > 1

====
